---- MODULE Spec2Model ----
(***************************************************************************)
(* A model of the "perf script" importer of speedscope,                    *)
(* src/src/import/linux-tools-perf.ts: the line splitter parseEvents, the  *)
(* record parser parseEvent and the routing loop of importFromLinuxPerf.   *)
(*                                                                         *)
(* Text is modelled as text: a line is a string, a character is a string   *)
(* of length one, and every regular expression of the source is an         *)
(* operator that matches character by character.                           *)
(***************************************************************************)
EXTENDS Integers, Sequences, FiniteSets, TLC

(***************************************************************************)
(* Bounds of the model.                                                    *)
(***************************************************************************)
\* records per input in the record-level inputs
MaxRecords == 3
\* lines per input in the line-level inputs
MaxLines == 4
\* lines after the header in the single-record inputs
MaxStackLines == 3
\* digits of the fraction kept by the fixed-point image of a JS number
FracDigits == 1

(***************************************************************************)
(* Encoding of the JavaScript values null and undefined.  A number that    *)
(* may be null is never negative when present; a string that may be null   *)
(* or undefined never holds a blank when present.                          *)
(***************************************************************************)
NullNum == -1
UndefNum == -2
NullStr == " null "
UndefStr == " undefined "
NullEvent == [isNull |-> TRUE]

(***************************************************************************)
(* Characters and character classes.                                       *)
(***************************************************************************)
Ch(s, i) == SubSeq(s, i, i)

Digit == {"0", "1", "2", "3", "4", "5", "6", "7", "8", "9"}
LowerHex == Digit \cup {"a", "b", "c", "d", "e", "f"}
HexDigit == LowerHex \cup {"A", "B", "C", "D", "E", "F"}
Lower == {"a", "b", "c", "d", "e", "f", "g", "h", "i", "j", "k", "l", "m",
          "n", "o", "p", "q", "r", "s", "t", "u", "v", "w", "x", "y", "z"}
Upper == {"A", "B", "C", "D", "E", "F", "G", "H", "I", "J", "K", "L", "M",
          "N", "O", "P", "Q", "R", "S", "T", "U", "V", "W", "X", "Y", "Z"}
\* the class [0-9a-zA-Z\[\].\/\-_] of the continuation line
FileChar == Digit \cup Lower \cup Upper \cup {"[", "]", ".", "/", "-", "_"}
\* \s, as far as the alphabet of the model goes
WS == {" ", "\t"}
\* the alphabet of the model; \S is its part outside \s
Alphabet == FileChar \cup WS \cup {"#", ":", "(", ")", "+", "?", ","}
NonWS == Alphabet \ WS

\* last index of the longest run of characters of class C that starts at i
\* (i - 1 when the run is empty): a greedy C* from position i
RECURSIVE RunEnd(_, _, _)
RunEnd(s, i, C) ==
  IF i <= Len(s) /\ Ch(s, i) \in C THEN RunEnd(s, i + 1, C) ELSE i - 1

\* first index of the longest run of characters of class C that ends at i
RECURSIVE RunStart(_, _, _)
RunStart(s, i, C) ==
  IF i >= 1 /\ Ch(s, i) \in C THEN RunStart(s, i - 1, C) ELSE i + 1

Min(S) == CHOOSE m \in S : \A n \in S : m <= n

DigitVal(c) ==
  CASE c = "0" -> 0 [] c = "1" -> 1 [] c = "2" -> 2 [] c = "3" -> 3
    [] c = "4" -> 4 [] c = "5" -> 5 [] c = "6" -> 6 [] c = "7" -> 7
    [] c = "8" -> 8 [] c = "9" -> 9

DigitChar(d) ==
  CASE d = 0 -> "0" [] d = 1 -> "1" [] d = 2 -> "2" [] d = 3 -> "3"
    [] d = 4 -> "4" [] d = 5 -> "5" [] d = 6 -> "6" [] d = 7 -> "7"
    [] d = 8 -> "8" [] d = 9 -> "9"

\* parseInt(digits, 10) of a non-empty string of decimal digits
RECURSIVE parseInt(_)
parseInt(digits) ==
  IF Len(digits) = 0 THEN 0
  ELSE 10 * parseInt(SubSeq(digits, 1, Len(digits) - 1))
         + DigitVal(Ch(digits, Len(digits)))

\* `${n}` of a non-negative integer
RECURSIVE NumToString(_)
NumToString(n) ==
  IF n < 10 THEN DigitChar(n)
  ELSE NumToString(n \div 10) \o DigitChar(n % 10)

RECURSIVE Pow10(_)
Pow10(k) == IF k = 0 THEN 1 ELSE 10 * Pow10(k - 1)

\* the first FracDigits digits of a fraction, padded with zeros on the right
RECURSIVE FracVal(_, _)
FracVal(digits, k) ==
  IF k = 0 THEN 0
  ELSE (IF Len(digits) = 0 THEN 0 ELSE DigitVal(Ch(digits, 1)) * Pow10(k - 1))
         + FracVal(IF Len(digits) = 0 THEN digits
                   ELSE SubSeq(digits, 2, Len(digits)), k - 1)

\* parseFloat of "<digits>.<digits>", as a fixed-point number counted in
\* units of 10^-FracDigits
parseFloat(str) ==
  LET dot == RunEnd(str, 1, Digit) + 1
  IN  parseInt(SubSeq(str, 1, dot - 1)) * Pow10(FracDigits)
        + FracVal(SubSeq(str, dot + 1, Len(str)), FracDigits)

(***************************************************************************)
(* The regular expressions of parseEvent.                                  *)
(***************************************************************************)

\* a variant that takes no line for a comment
IsComment_never(l) == FALSE

\* /^\s*#/
IsComment(l) ==
  LET e == RunEnd(l, 1, WS)
  IN  e + 1 <= Len(l) /\ Ch(l, e + 1) = "#"

\* \s+(\d+)(?:\/?(\d+))?\s+ matched from index k + 1 of s; groups 2 and 3.
\* \s+ and the greedy (\d+) take their whole runs (a shorter one is followed
\* by a character of the same class, which the next item rejects); the
\* optional group is tried before its omission.
IdsAt(s, k) ==
  LET w == RunEnd(s, k + 1, WS)
      d == RunEnd(s, w + 1, Digit)
      sl == IF d + 1 <= Len(s) /\ Ch(s, d + 1) = "/" THEN d + 1 ELSE d
      d2 == RunEnd(s, sl + 1, Digit)
  IN  IF w < k + 1 \/ d < w + 1 THEN [ok |-> FALSE]
      ELSE IF d2 >= sl + 1 /\ d2 + 1 <= Len(s) /\ Ch(s, d2 + 1) \in WS
        THEN [ok |-> TRUE, g2 |-> SubSeq(s, w + 1, d),
              g3 |-> SubSeq(s, sl + 1, d2)]
      ELSE IF d + 1 <= Len(s) /\ Ch(s, d + 1) \in WS
        THEN [ok |-> TRUE, g2 |-> SubSeq(s, w + 1, d), g3 |-> UndefStr]
      ELSE [ok |-> FALSE]

\* /^(\S.+?)\s+(\d+)(?:\/?(\d+))?\s+/ : the lazy .+? makes group 1 the
\* shortest prefix of two or more characters after which the rest matches
eventStartMatch(firstLine) ==
  LET ends == {k \in 2..Len(firstLine) :
                 Ch(firstLine, 1) \in NonWS /\ IdsAt(firstLine, k).ok}
  IN  IF ends = {} THEN [ok |-> FALSE]
      ELSE LET k == Min(ends)
               ids == IdsAt(firstLine, k)
           IN  [ok |-> TRUE, g1 |-> SubSeq(firstLine, 1, k),
                g2 |-> ids.g2, g3 |-> ids.g3]

\* /\s+(\d+\.\d+):\s+/ : the leftmost place where a blank is followed by
\* digits, a dot, digits, a colon and a blank; group 1
timeMatch(firstLine) ==
  LET starts == {j \in 2..Len(firstLine) :
        /\ Ch(firstLine, j - 1) \in WS
        /\ LET d1 == RunEnd(firstLine, j, Digit)
               d2 == RunEnd(firstLine, d1 + 2, Digit)
           IN  /\ d1 >= j
               /\ d1 + 1 <= Len(firstLine) /\ Ch(firstLine, d1 + 1) = "."
               /\ d2 >= d1 + 2
               /\ d2 + 2 <= Len(firstLine)
               /\ Ch(firstLine, d2 + 1) = ":"
               /\ Ch(firstLine, d2 + 2) \in WS}
  IN  IF starts = {} THEN [ok |-> FALSE]
      ELSE LET j == Min(starts)
               d1 == RunEnd(firstLine, j, Digit)
               d2 == RunEnd(firstLine, d1 + 2, Digit)
           IN  [ok |-> TRUE, g1 |-> SubSeq(firstLine, j, d2)]

\* /(\S+):\s*$/ : the colon is the last non-blank character of the line and
\* group 1 is the whole run of non-blank characters that ends before it
evName(firstLine) ==
  LET e == RunStart(firstLine, Len(firstLine), WS) - 1
      b == RunStart(firstLine, e - 1, NonWS)
  IN  IF e >= 2 /\ Ch(firstLine, e) = ":" /\ b <= e - 1
        THEN [ok |-> TRUE, g1 |-> SubSeq(firstLine, b, e - 1)]
        ELSE [ok |-> FALSE]

\* /^[ ]+([0-9a-zA-Z\[\].\/\-_]+)(:([0-9]+))?( \(inlined\))?$/
continuationMatch(line) ==
  LET p == RunEnd(line, 1, {" "})
      f == RunEnd(line, p + 1, FileChar)
      n == IF f + 1 <= Len(line) /\ Ch(line, f + 1) = ":"
             THEN RunEnd(line, f + 2, Digit) ELSE f
      hasLine == n >= f + 2
      q == IF hasLine THEN n ELSE f
      rest == SubSeq(line, q + 1, Len(line))
  IN  IF p >= 1 /\ f >= p + 1 /\ rest \in {"", " (inlined)"}
        THEN [ok |-> TRUE, sourceFile |-> SubSeq(line, p + 1, f),
              sourceLine |-> IF hasLine THEN SubSeq(line, f + 2, n)
                             ELSE UndefStr,
              wasInlined |-> rest # ""]
        ELSE [ok |-> FALSE]

\* ( \((\S*)\))?$ matched from index q + 1 with the group present
FileGroupAt(line, q) ==
  /\ q + 3 <= Len(line)
  /\ Ch(line, q + 1) = " " /\ Ch(line, q + 2) = "("
  /\ Ch(line, Len(line)) = ")"
  /\ \A i \in (q + 3)..(Len(line) - 1) : Ch(line, i) \in NonWS

\* /^\s*([0-9a-fA-F]+) (.+?)( \((\S*)\))?$/ : the lazy .+? makes the symbol
\* the shortest text after which " (<file>)" ends the line, and the whole
\* rest of the line when there is no such place
stackLineMatch(line) ==
  LET w == RunEnd(line, 1, WS)
      h == RunEnd(line, w + 1, HexDigit)
      qs == {q \in (h + 2)..Len(line) : FileGroupAt(line, q)}
  IN  IF h >= w + 1 /\ h + 2 <= Len(line) /\ Ch(line, h + 1) = " "
        THEN IF qs # {}
          THEN [ok |-> TRUE, address |-> SubSeq(line, w + 1, h),
                symbolName |-> SubSeq(line, h + 2, Min(qs)),
                file |-> SubSeq(line, Min(qs) + 3, Len(line) - 1)]
          ELSE [ok |-> TRUE, address |-> SubSeq(line, w + 1, h),
                symbolName |-> SubSeq(line, h + 2, Len(line)),
                file |-> UndefStr]
        ELSE [ok |-> FALSE]

\* a variant that leaves the offset on the symbol
stripOffset_none(symbolName) == symbolName

\* symbolName.replace(/\+0x[\da-f]+$/, '')
stripOffset(symbolName) ==
  LET n == Len(symbolName)
      ps == {p \in 1..(n - 3) :
               /\ SubSeq(symbolName, p, p + 2) = "+0x"
               /\ \A i \in (p + 3)..n : Ch(symbolName, i) \in LowerHex}
  IN  IF ps = {} THEN symbolName ELSE SubSeq(symbolName, 1, Min(ps) - 1)

(***************************************************************************)
(* parseEvent.                                                             *)
(***************************************************************************)
NotComment(l) == ~IsComment(l)

RECURSIVE Reverse(_)
Reverse(s) == IF s = <<>> THEN <<>> ELSE Append(Reverse(Tail(s)), Head(s))

\* the frame of a stack line: the offset is stripped from the symbol, the
\* address gets its 0x, and line is not set
newFrame(sm) ==
  [address |-> "0x" \o sm.address, symbolName |-> stripOffset(sm.symbolName),
   file |-> sm.file, line |-> UndefNum]

\* a continuation line sets file and line of the frame lastWasSymbol refers to
refineFrame(frame, cm) ==
  [frame EXCEPT !.file = cm.sourceFile,
                !.line = IF cm.sourceLine # UndefStr
                           THEN parseInt(cm.sourceLine) ELSE UndefNum]

\* a variant that keeps lastWasSymbol after a continuation line
afterContinuation_keep(lastWasSymbol) == lastWasSymbol

\* lastWasSymbol after a continuation line has been consumed
afterContinuation(lastWasSymbol) == 0

\* The loop over the lines after the header.  i is the index of the line at
\* hand, stack the frames pushed so far; lastWasSymbol is the index in stack
\* of the frame the variable of that name refers to, 0 when it is null.
RECURSIVE parseStackLines(_, _, _, _)
parseStackLines(lines, i, stack, lastWasSymbol) ==
  IF i > Len(lines) THEN stack
  ELSE LET line == lines[i]
           cm == continuationMatch(line)
           sm == stackLineMatch(line)
       IN  IF lastWasSymbol # 0 /\ cm.ok
             THEN parseStackLines(lines, i + 1,
                    [stack EXCEPT ![lastWasSymbol] = refineFrame(@, cm)],
                    afterContinuation(lastWasSymbol))
           ELSE IF ~sm.ok
             THEN parseStackLines(lines, i + 1, stack, 0)
           ELSE parseStackLines(lines, i + 1, Append(stack, newFrame(sm)),
                                Len(stack) + 1)

\* a variant without the reversal
finalStack_asIs(frames) == frames

\* event.stack as parseEvent leaves it
finalStack(frames) == Reverse(frames)

parseEvent(rawEvent) ==
  LET lines == SelectSeq(rawEvent, NotComment)
  IN  IF lines = <<>> THEN NullEvent
      ELSE IF Head(lines) = "" THEN NullEvent
      ELSE LET firstLine == Head(lines)
               m == eventStartMatch(firstLine)
               tm == timeMatch(firstLine)
               en == evName(firstLine)
           IN  IF ~m.ok THEN NullEvent
               ELSE [command |-> m.g1,
                     processID |-> IF m.g3 # UndefStr THEN parseInt(m.g2)
                                   ELSE NullNum,
                     threadID |-> IF m.g3 # UndefStr THEN parseInt(m.g3)
                                  ELSE parseInt(m.g2),
                     time |-> IF tm.ok THEN parseFloat(tm.g1) ELSE NullNum,
                     eventType |-> IF en.ok THEN en.g1 ELSE "",
                     stack |-> finalStack(
                                 parseStackLines(Tail(lines), 1, <<>>, 0))]

(***************************************************************************)
(* The body of the loop of importFromLinuxPerf.                            *)
(***************************************************************************)
RECURSIVE Join(_, _)
Join(parts, sep) ==
  IF parts = <<>> THEN ""
  ELSE IF Len(parts) = 1 THEN parts[1]
  ELSE parts[1] \o sep \o Join(Tail(parts), sep)

\* if (x) for a string that may be null, and for a number that may be null
TruthyStr(x) == x # NullStr /\ x # ""
TruthyNum(x) == x # NullNum /\ x # 0

profileName(event) ==
  Join((IF TruthyStr(event.command) THEN <<event.command>> ELSE <<>>)
       \o (IF TruthyNum(event.processID)
             THEN <<"pid: " \o NumToString(event.processID)>> ELSE <<>>)
       \o (IF TruthyNum(event.threadID)
             THEN <<"tid: " \o NumToString(event.threadID)>> ELSE <<>>),
       " ")

\* `${file}` of a file that may be undefined
FileText(file) == IF file = UndefStr THEN "undefined" ELSE file

\* the frame handed to the builder for one frame of the event
frameInfo(f) ==
  [key |-> f.symbolName \o " (" \o FileText(f.file) \o ")",
   name |-> IF f.symbolName = "[unknown]"
              THEN "??? (" \o FileText(f.file) \o ")" ELSE f.symbolName,
   file |-> f.file,
   line |-> f.line]

\* the arguments of appendSampleWithTimestamp
sampleOf(event) ==
  [stack |-> [i \in 1..Len(event.stack) |-> frameInfo(event.stack[i])],
   timestamp |-> event.time]

\* variants of the tests below that never skip
typeMismatch_never(latch, event) == FALSE
noTime_never(event) == FALSE

\* a variant that skips the events of the latched type and keeps the others
typeMismatch_inverted(latch, event) ==
  latch # NullStr /\ latch = event.eventType

\* the tests that make the loop skip an event
isNull(event) == event = NullEvent
typeMismatch(latch, event) == latch # NullStr /\ latch # event.eventType
noTime(event) == event.time = NullNum

\* the entries of the Map profiles, in insertion order, as a sequence
KeyIndex(profs, key) ==
  IF \E i \in 1..Len(profs) : profs[i].key = key
    THEN CHOOSE i \in 1..Len(profs) : profs[i].key = key
    ELSE 0

\* a variant that makes the builder of a new name and appends nothing to it
routeSample_builderFirst(profs, event) ==
  LET name == profileName(event)
      k == KeyIndex(profs, name)
  IN  IF k # 0
        THEN [profs EXCEPT ![k].builder.samples = Append(@, sampleOf(event))]
        ELSE Append(profs, [key |-> name,
                            builder |-> [name |-> name,
                                         formatter |-> "seconds",
                                         samples |-> <<>>]])

\* a variant that puts the builder of a new name before the others
routeSample_newestFirst(profs, event) ==
  LET name == profileName(event)
      k == KeyIndex(profs, name)
  IN  IF k # 0
        THEN [profs EXCEPT ![k].builder.samples = Append(@, sampleOf(event))]
        ELSE <<[key |-> name,
                builder |-> [name |-> name,
                             formatter |-> "seconds",
                             samples |-> <<sampleOf(event)>>]]>> \o profs

\* getOrInsert with the builder factory, then appendSampleWithTimestamp
routeSample(profs, event) ==
  LET name == profileName(event)
      k == KeyIndex(profs, name)
      withBuilder == IF k # 0 THEN profs
                     ELSE Append(profs, [key |-> name,
                                         builder |-> [name |-> name,
                                                      formatter |-> "seconds",
                                                      samples |-> <<>>]])
      at == IF k # 0 THEN k ELSE Len(profs) + 1
  IN  [withBuilder EXCEPT ![at].builder.samples = Append(@, sampleOf(event))]

\* StackListProfileBuilder.build, as far as the importer's result shows it
build(builder) == [name |-> builder.name, samples |-> builder.samples]

\* a variant that names the group after its first profile whatever the count
groupName_first(profs) == profs[1].key

groupName(profs) == IF Len(profs) = 1 THEN profs[1].key ELSE ""

NullResult == [isNull |-> TRUE]
NotReturned == [returned |-> FALSE]
NoEvent == [none |-> TRUE]

returnValue(profs) ==
  IF Len(profs) = 0 THEN NullResult
  ELSE [name |-> groupName(profs),
        indexToView |-> 0,
        profiles |-> [i \in 1..Len(profs) |-> build(profs[i].builder)]]

(***************************************************************************)
(* The inputs: what the line source (contents.splitLines()) may hold.      *)
(***************************************************************************)
\* records: a header line, then the lines of its stack
RecordLib ==
  { <<"ab 7 1.5: cy:", " a1 f (x)">>,
    <<"ab 8 2.5: cy:">>,
    <<"ab 8 2.5: cm:">>,
    <<"ab 0/7 3.5: cy:">>,
    <<"ab 0 1.5: cy:">>,
    <<"ab 7 cy:">>,
    <<"ab 7 1.5: cy">>,
    <<"ab x 1.5: cy:">>,
    <<"cd 3/4 1.5: cy:">> }

\* single lines: the empty line, a line of one blank, a header, a stack
\* line, a comment
LineLib == {"", " ", "ab 7 1.5: cy:", " a1 f (x)", "# c"}

\* lines that may follow a header
StackLib ==
  { " a1 f (x)", " b2 g+0x1f (y)", "  s.c:12", " t.c (inlined)",
    " ab (inlined)", "# c", "??", " c3 h+0xAB (z)" }

SeqsUpTo(S, n) == UNION {[1..k -> S] : k \in 0..n}

\* the records of rs, each followed by an empty line
RECURSIVE Concat(_)
Concat(rs) ==
  IF rs = <<>> THEN <<>> ELSE Head(rs) \o <<"">> \o Concat(Tail(rs))

RecordInputs == {Concat(rs) : rs \in SeqsUpTo(RecordLib, MaxRecords)}
LineInputs == SeqsUpTo(LineLib, MaxLines)
StackInputs == {<<"ab 7 1.5: cy:">> \o t : t \in SeqsUpTo(StackLib, MaxStackLines)}
Inputs == RecordInputs \cup LineInputs \cup StackInputs

(***************************************************************************)
(* The state.                                                              *)
(***************************************************************************)
VARIABLES
  input,      \* the lines of contents.splitLines()
  pos,        \* parseEvents: number of lines taken from the line source
  buffer,     \* parseEvents: buffer
  flushed,    \* parseEvents: the yield after the loop has been made
  pc,         \* "read": parseEvents runs; "body": the loop body of
              \* importFromLinuxPerf holds a yielded event; "done": returned
  pending,    \* the event yielded to the loop body
  eventType,  \* importFromLinuxPerf: eventType
  profiles,   \* importFromLinuxPerf: the Map profiles, in insertion order
  result,     \* what importFromLinuxPerf returned
  handed      \* the arguments of the calls of parseEvent so far, in order

vars == <<input, pos, buffer, flushed, pc, pending, eventType, profiles,
          result, handed>>

Init ==
  /\ input \in Inputs
  /\ pos = 0
  /\ buffer = <<>>
  /\ flushed = FALSE
  /\ pc = "read"
  /\ pending = NoEvent
  /\ eventType = NullStr
  /\ profiles = <<>>
  /\ result = NotReturned
  /\ handed = <<>>

(***************************************************************************)
(* parseEvents: one step per line of the line source, one for the buffer   *)
(* left at the end.                                                        *)
(***************************************************************************)
\* } else buffer.push(line)
PushLine ==
  /\ pc = "read" /\ pos < Len(input)
  /\ input[pos + 1] # ""
  /\ buffer' = Append(buffer, input[pos + 1])
  /\ pos' = pos + 1
  /\ UNCHANGED <<input, flushed, pc, pending, eventType, profiles, result,
                 handed>>

\* a variant that does not empty the buffer after the yield
YieldOnEmptyLine_keepBuffer ==
  /\ pc = "read" /\ pos < Len(input)
  /\ input[pos + 1] = ""
  /\ pending' = parseEvent(buffer)
  /\ handed' = Append(handed, buffer)
  /\ pos' = pos + 1
  /\ pc' = "body"
  /\ UNCHANGED <<input, buffer, flushed, eventType, profiles, result>>

\* if (line === '') { yield parseEvent(buffer); buffer = [] }
YieldOnEmptyLine ==
  /\ pc = "read" /\ pos < Len(input)
  /\ input[pos + 1] = ""
  /\ pending' = parseEvent(buffer)
  /\ handed' = Append(handed, buffer)
  /\ buffer' = <<>>
  /\ pos' = pos + 1
  /\ pc' = "body"
  /\ UNCHANGED <<input, flushed, eventType, profiles, result>>

\* if (buffer.length > 0) yield parseEvent(buffer)
YieldAtEnd ==
  /\ pc = "read" /\ pos = Len(input) /\ ~flushed
  /\ Len(buffer) > 0
  /\ pending' = parseEvent(buffer)
  /\ handed' = Append(handed, buffer)
  /\ flushed' = TRUE
  /\ pc' = "body"
  /\ UNCHANGED <<input, pos, buffer, eventType, profiles, result>>

(***************************************************************************)
(* importFromLinuxPerf: the loop body on one yielded event, and the return.*)
(***************************************************************************)
\* if (event == null) continue
SkipNull ==
  /\ pc = "body"
  /\ isNull(pending)
  /\ pc' = "read" /\ pending' = NoEvent
  /\ UNCHANGED <<input, pos, buffer, flushed, eventType, profiles, result,
                 handed>>

\* if (eventType != null && eventType != event.eventType) continue
SkipOtherType ==
  /\ pc = "body"
  /\ ~isNull(pending)
  /\ typeMismatch(eventType, pending)
  /\ pc' = "read" /\ pending' = NoEvent
  /\ UNCHANGED <<input, pos, buffer, flushed, eventType, profiles, result,
                 handed>>

\* a variant that sets the latch before it tests the timestamp
SkipNoTime_latchFirst ==
  /\ pc = "body"
  /\ ~isNull(pending)
  /\ ~typeMismatch(eventType, pending)
  /\ noTime(pending)
  /\ eventType' = pending.eventType
  /\ pc' = "read" /\ pending' = NoEvent
  /\ UNCHANGED <<input, pos, buffer, flushed, profiles, result, handed>>

\* if (event.time == null) continue
SkipNoTime ==
  /\ pc = "body"
  /\ ~isNull(pending)
  /\ ~typeMismatch(eventType, pending)
  /\ noTime(pending)
  /\ pc' = "read" /\ pending' = NoEvent
  /\ UNCHANGED <<input, pos, buffer, flushed, eventType, profiles, result,
                 handed>>

\* the rest of the body: latch the event type, find or make the builder of
\* the event's profile name, append the sample
AppendSample ==
  /\ pc = "body"
  /\ ~isNull(pending)
  /\ ~typeMismatch(eventType, pending)
  /\ ~noTime(pending)
  /\ eventType' = pending.eventType
  /\ profiles' = routeSample(profiles, pending)
  /\ pc' = "read" /\ pending' = NoEvent
  /\ UNCHANGED <<input, pos, buffer, flushed, result, handed>>

\* parseEvents is exhausted: the return statements
Return ==
  /\ pc = "read" /\ pos = Len(input)
  /\ Len(buffer) = 0 \/ flushed
  /\ result' = returnValue(profiles)
  /\ pc' = "done"
  /\ UNCHANGED <<input, pos, buffer, flushed, pending, eventType, profiles,
                 handed>>

Next ==
  \/ PushLine
  \/ YieldOnEmptyLine
  \/ YieldAtEnd
  \/ SkipNull
  \/ SkipOtherType
  \/ SkipNoTime
  \/ AppendSample
  \/ Return

Spec == Init /\ [][Next]_vars

(***************************************************************************)
(* What the properties below speak of.                                     *)
(***************************************************************************)
\* the number of records the loop body has gone through
Processed == IF pc = "body" THEN Len(handed) - 1 ELSE Len(handed)

\* the events of those records
Events == [i \in 1..Processed |-> parseEvent(handed[i])]

\* the records that parse to an event, and those of them with a timestamp
ParsedIn(evs) == {i \in DOMAIN evs : evs[i] # NullEvent}
TimedIn(evs) == {i \in ParsedIn(evs) : evs[i].time # NullNum}

\* the records with a timestamp whose event type is that of the first of them
AcceptedIn(evs) ==
  {i \in TimedIn(evs) : evs[i].eventType = evs[Min(TimedIn(evs))].eventType}

RECURSIVE SumLen(_)
SumLen(profs) ==
  IF profs = <<>> THEN 0
  ELSE Len(Head(profs).builder.samples) + SumLen(Tail(profs))

\* the header of a record: its first line that is no comment
HasHeader(raw) == SelectSeq(raw, NotComment) # <<>>
HeaderOf(raw) == Head(SelectSeq(raw, NotComment))

\* C1 (as amended): the event type T of the first record that parses and has
\* a timestamp is the metric of the import; the latch holds T from then on,
\* and a record whose event type differs from T appends no sample and creates
\* no builder: the samples are as many as the timestamped records of type T,
\* the builders as many as their profile names.
C1_FirstTimedTypeGates ==
  LET evs == Events
      acc == AcceptedIn(evs)
  IN  IF TimedIn(evs) = {} THEN eventType = NullStr /\ profiles = <<>>
      ELSE /\ eventType = evs[Min(TimedIn(evs))].eventType
           /\ SumLen(profiles) = Cardinality(acc)
           /\ Len(profiles) = Cardinality({profileName(evs[i]) : i \in acc})

\* C1 as stated: the event type T of the first event record of the input is
\* the metric, and no record of another type appends a sample.
C1_FirstRecordTypeGates ==
  LET evs == Events
  IN  IF ParsedIn(evs) = {} THEN eventType = NullStr /\ profiles = <<>>
      ELSE LET T == evs[Min(ParsedIn(evs))].eventType
           IN  /\ eventType \in {NullStr, T}
               /\ SumLen(profiles)
                    <= Cardinality({i \in ParsedIn(evs) : evs[i].eventType = T})

\* a timestamped record of another type came after the metric was set
C1_Witness ==
  LET evs == Events
  IN  /\ pc = "done"
      /\ \E i \in TimedIn(evs) : i \notin AcceptedIn(evs) /\ i > Min(TimedIn(evs))

\* C2: the result is null exactly when no builder exists, never a group with
\* no profile; a group has indexToView 0, the name of its profile when it
\* holds one, and the empty name when it holds two or more.
C2_ResultShape ==
  pc = "done" =>
    /\ result = NullResult <=> AcceptedIn(Events) = {}
    /\ result = NullResult <=> profiles = <<>>
    /\ result # NullResult =>
         /\ Len(result.profiles) = Len(profiles)
         /\ Len(result.profiles) >= 1
         /\ result.indexToView = 0
         /\ Len(result.profiles) = 1 => result.name = result.profiles[1].name
         /\ Len(result.profiles) >= 2 => result.name = ""

\* a group of two or more profiles was returned
C2_Witness ==
  /\ pc = "done" /\ result # NullResult
  /\ Len(result.profiles) >= 2

\* C3: the loop body leaves the latch and the builders alone on an event
\* whose header has no timestamp the time pattern finds, and an input in
\* which no header has one returns null.
C3_NoTimestampDiscarded ==
  /\ [][(/\ pc = "body" /\ pending # NullEvent
         /\ ~timeMatch(HeaderOf(handed[Len(handed)])).ok)
          => UNCHANGED <<eventType, profiles>>]_vars
  /\ [](pc = "done"
        /\ (\A i \in 1..Len(handed) :
              HasHeader(handed[i]) => ~timeMatch(HeaderOf(handed[i])).ok)
        => result = NullResult)

\* records that parse, none with a timestamp, and null returned
C3_Witness ==
  LET evs == Events
  IN  /\ pc = "done"
      /\ ParsedIn(evs) # {} /\ TimedIn(evs) = {}
      /\ result = NullResult

\* the compound identity of an event
Context(event) == <<event.command, event.processID, event.threadID>>

\* C4: two accepted records go to the same builder exactly when they have the
\* same (command, process ID, thread ID), so the builders are as many as the
\* distinct identities among the accepted records.
C4_OneBuilderPerContext ==
  LET evs == Events
      acc == AcceptedIn(evs)
  IN  /\ \A i, j \in acc :
           profileName(evs[i]) = profileName(evs[j])
             <=> Context(evs[i]) = Context(evs[j])
      /\ Len(profiles) = Cardinality({Context(evs[i]) : i \in acc})

\* the name the claim gives a context: the parts that are not null
NonNullName(event) ==
  Join((IF event.command # NullStr THEN <<event.command>> ELSE <<>>)
       \o (IF event.processID # NullNum
             THEN <<"pid: " \o NumToString(event.processID)>> ELSE <<>>)
       \o (IF event.threadID # NullNum
             THEN <<"tid: " \o NumToString(event.threadID)>> ELSE <<>>),
       " ")

\* C5: the builder of every accepted record is named by the non-null parts
\* among command, "pid: p" and "tid: t", joined by single spaces.
C5_NameJoinsNonNullParts ==
  LET evs == Events
  IN  \A i \in AcceptedIn(evs) :
        \E k \in 1..Len(profiles) :
          profiles[k].builder.name = NonNullName(evs[i])

\* the three parts of the header grammar
HeaderMatchesGrammar(l) ==
  eventStartMatch(l).ok /\ timeMatch(l).ok /\ evName(l).ok

\* C6: the loop body leaves the latch and the builders alone on a record
\* whose header fails the grammar in its command and ids, its time or its
\* event type.
C6_BadHeaderDiscarded ==
  [][(/\ pc = "body" /\ HasHeader(handed[Len(handed)])
      /\ ~HeaderMatchesGrammar(HeaderOf(handed[Len(handed)])))
       => UNCHANGED <<eventType, profiles>>]_vars

\* the k-th smallest element of a set of numbers
KthOf(S, k) == CHOOSE x \in S : Cardinality({y \in S : y < x}) = k - 1

\* the maximal runs of consecutive non-empty lines of ls, in order
RunStarts(ls) ==
  {b \in 1..Len(ls) : ls[b] # "" /\ (b = 1 \/ ls[b - 1] = "")}
RunEndFrom(ls, b) ==
  CHOOSE e \in b..Len(ls) :
    /\ \A i \in b..e : ls[i] # ""
    /\ e = Len(ls) \/ ls[e + 1] = ""
MaximalRuns(ls) ==
  [k \in 1..Cardinality(RunStarts(ls)) |->
     SubSeq(ls, KthOf(RunStarts(ls), k),
            RunEndFrom(ls, KthOf(RunStarts(ls), k)))]

NonEmptyRecord(r) == r # <<>>

\* C7: when parseEvents is exhausted, the non-empty records handed to
\* parseEvent are the maximal runs of consecutive non-empty lines of the
\* input, each once, in input order, the run at the end of the input included.
C7_RecordsAreMaximalRuns ==
  pc = "done" => SelectSeq(handed, NonEmptyRecord) = MaximalRuns(input)

\* an input with an empty record, a record of two lines, and a last record
\* that no empty line follows
C7_Witness ==
  /\ pc = "done" /\ flushed
  /\ \E i \in 1..Len(handed) : handed[i] = <<>>
  /\ \E i \in 1..Len(handed) : Len(handed[i]) >= 2

\* the loop of importFromLinuxPerf run on a sequence of events
RECURSIVE Replay(_, _, _)
Replay(events, latch, profs) ==
  IF events = <<>> THEN <<latch, profs>>
  ELSE LET e == Head(events)
       IN  IF isNull(e) \/ typeMismatch(latch, e) \/ noTime(e)
             THEN Replay(Tail(events), latch, profs)
             ELSE Replay(Tail(events), e.eventType, routeSample(profs, e))

\* C8: the loop body leaves the latch and the builders as they are on an
\* event that is null, has no timestamp or has an event type other than the
\* latched one; and at every point the latch and the builders are what the
\* loop makes of the accepted records alone, the discarded ones left out.
C8_SkipLeavesStateUntouched ==
  /\ [][(/\ pc = "body"
         /\ \/ pending = NullEvent
            \/ pending.time = NullNum
            \/ eventType # NullStr /\ pending.eventType # eventType)
          => UNCHANGED <<eventType, profiles>>]_vars
  /\ [](LET evs == Events
            acc == AcceptedIn(evs)
            kept == [k \in 1..Cardinality(acc) |-> evs[KthOf(acc, k)]]
        IN  <<eventType, profiles>> = Replay(kept, NullStr, <<>>))

\* a record was discarded after one was accepted, and one accepted after it
C8_Witness ==
  LET evs == Events
      acc == AcceptedIn(evs)
  IN  \E i \in 1..Processed :
        /\ i \notin acc
        /\ \E j \in acc : j < i
        /\ \E j \in acc : j > i

\* the lines of a record after its header
LinesAfterHeader(raw) == Tail(SelectSeq(raw, NotComment))

\* line i refines the frame before it: it comes right after a stack line and
\* matches the continuation grammar; line i is a stack line: it is no such
\* line and matches the stack grammar
RECURSIVE IsStackLineAt(_, _), IsContinuationAt(_, _)
IsContinuationAt(lines, i) ==
  i > 1 /\ IsStackLineAt(lines, i - 1) /\ continuationMatch(lines[i]).ok
IsStackLineAt(lines, i) ==
  ~IsContinuationAt(lines, i) /\ stackLineMatch(lines[i]).ok

\* the frame of stack line i, refined by line i + 1 when that is its
\* continuation line
FrameOfLine(lines, i) ==
  LET sm == stackLineMatch(lines[i])
      refined == i < Len(lines) /\ IsContinuationAt(lines, i + 1)
  IN  [address |-> "0x" \o sm.address,
       symbolName |-> stripOffset(sm.symbolName),
       file |-> IF refined THEN continuationMatch(lines[i + 1]).sourceFile
                ELSE sm.file,
       line |-> IF refined
                     /\ continuationMatch(lines[i + 1]).sourceLine # UndefStr
                  THEN parseInt(continuationMatch(lines[i + 1]).sourceLine)
                  ELSE UndefNum]

\* the frames of the stack lines from line i on, in order of appearance
RECURSIVE FramesFrom(_, _)
FramesFrom(lines, i) ==
  IF i > Len(lines) THEN <<>>
  ELSE (IF IsStackLineAt(lines, i) THEN <<FrameOfLine(lines, i)>> ELSE <<>>)
         \o FramesFrom(lines, i + 1)

CountIn(q, x) == Cardinality({k \in 1..Len(q) : q[k] = x})
SameBag(a, b) ==
  /\ Len(a) = Len(b)
  /\ \A k \in 1..Len(a) : CountIn(a, a[k]) = CountIn(b, a[k])

\* C9: the stack of a parsed record has one frame for every stack line and
\* no other; a continuation line right after a stack line sets file and line
\* of that frame alone, a second one after it does not, and every other
\* frame keeps the file of its own line.
C9_ContinuationRefinesOneFrame ==
  (pc = "body" /\ pending # NullEvent) =>
    LET lines == LinesAfterHeader(handed[Len(handed)])
    IN  /\ Len(pending.stack)
             = Cardinality({i \in 1..Len(lines) : IsStackLineAt(lines, i)})
        /\ SameBag(pending.stack, FramesFrom(lines, 1))

\* a continuation line was consumed and the next line matches the
\* continuation grammar too
C9_Witness ==
  /\ pc = "body" /\ pending # NullEvent
  /\ LET lines == LinesAfterHeader(handed[Len(handed)])
     IN  \E i \in 2..(Len(lines) - 1) :
           /\ IsContinuationAt(lines, i)
           /\ continuationMatch(lines[i + 1]).ok

\* C10: the stack appended for an accepted record is the reverse of the
\* frames of its stack lines in order of appearance, each frame once.
C10_SampleStackIsReversedFrames ==
  LET evs == Events
      n == Processed
  IN  (n >= 1 /\ n \in AcceptedIn(evs)) =>
        LET frames == FramesFrom(LinesAfterHeader(handed[n]), 1)
            m == Len(frames)
            k == KeyIndex(profiles, profileName(evs[n]))
        IN  /\ k # 0
            /\ profiles[k].builder.samples # <<>>
            /\ LET sample == profiles[k].builder.samples[
                               Len(profiles[k].builder.samples)]
               IN  /\ sample.stack
                        = [j \in 1..m |-> frameInfo(frames[m + 1 - j])]
                   /\ sample.timestamp = evs[n].time

\* the record just accepted has two or more different frames
C10_Witness ==
  LET evs == Events
      n == Processed
  IN  /\ n >= 1 /\ n \in AcceptedIn(evs)
      /\ LET frames == FramesFrom(LinesAfterHeader(handed[n]), 1)
         IN  Len(frames) >= 2 /\ frames[1] # frames[Len(frames)]

\* the places p of a symbol where "+0x" and then one or more characters of
\* class C, and nothing else, follow a non-empty name
OffsetAt(symbol, C) ==
  {p \in 2..(Len(symbol) - 3) :
     /\ SubSeq(symbol, p, p + 2) = "+0x"
     /\ \A i \in (p + 3)..Len(symbol) : Ch(symbol, i) \in C}

\* the stack lines of a record, in order of appearance
StackLinesOf(lines) == {i \in 1..Len(lines) : IsStackLineAt(lines, i)}

\* the stack appended for the record just accepted carries, for every stack
\* line whose symbol is a name s, "+0x" and digits of class C, the key that
\* the plain symbol s gets with the same file
OffsetStripped(C) ==
  LET evs == Events
      n == Processed
  IN  (n >= 1 /\ n \in AcceptedIn(evs)) =>
        LET lines == LinesAfterHeader(handed[n])
            at == StackLinesOf(lines)
            m == Cardinality(at)
            k == KeyIndex(profiles, profileName(evs[n]))
            sample == profiles[k].builder.samples[
                        Len(profiles[k].builder.samples)]
        IN  /\ Len(sample.stack) = m
            /\ \A j \in 1..m :
                 LET symbol == stackLineMatch(lines[KthOf(at, j)]).symbolName
                     frame == sample.stack[m + 1 - j]
                 IN  \A p \in OffsetAt(symbol, C) :
                       frame.key = SubSeq(symbol, 1, p - 1) \o " ("
                                     \o FileText(frame.file) \o ")"

\* C11 (as amended): a stack line whose symbol is s followed by "+0x" and
\* one or more of the characters 0-9 and a-f is stored under the symbol s:
\* its frame has the key of the plain symbol s with the same file.
C11_LowerHexOffsetStripped == OffsetStripped(LowerHex)

\* C11 as stated: the same for every non-empty string of hex digits, the
\* letters A-F included.
C11_HexOffsetStripped == OffsetStripped(HexDigit)

\* the record just accepted has a stack line with an offset in lower case
C11_Witness ==
  LET evs == Events
      n == Processed
  IN  /\ n >= 1 /\ n \in AcceptedIn(evs)
      /\ LET lines == LinesAfterHeader(handed[n])
         IN  \E i \in StackLinesOf(lines) :
               OffsetAt(stackLineMatch(lines[i]).symbolName, LowerHex) # {}

\* the first character of the line that is no blank is '#'
HashLine(l) ==
  \E i \in 1..Len(l) :
    Ch(l, i) = "#" /\ \A j \in 1..(i - 1) : Ch(l, j) \in WS
NoHashLine(l) == ~HashLine(l)

\* C12: the event of a record is the event of the record without its lines
\* whose first non-blank character is '#'; a record of such lines alone
\* gives no event, and the loop body changes nothing on it.
C12_CommentsAreStripped ==
  /\ [](pc = "body" =>
          LET raw == handed[Len(handed)]
              bare == SelectSeq(raw, NoHashLine)
          IN  /\ pending = parseEvent(bare)
              /\ (raw # <<>> /\ bare = <<>>) => pending = NullEvent)
  /\ [][(/\ pc = "body" /\ handed[Len(handed)] # <<>>
         /\ SelectSeq(handed[Len(handed)], NoHashLine) = <<>>)
          => UNCHANGED <<eventType, profiles>>]_vars

\* a comment stands between a stack line and its continuation line, and the
\* frame has the file of the continuation line
C12_Witness ==
  /\ pc = "body" /\ pending # NullEvent
  /\ LET raw == handed[Len(handed)]
     IN  \E i \in 1..(Len(raw) - 2) :
           /\ stackLineMatch(raw[i]).ok
           /\ HashLine(raw[i + 1])
           /\ continuationMatch(raw[i + 2]).ok
           /\ Len(pending.stack) = 1
           /\ pending.stack[1].file = continuationMatch(raw[i + 2]).sourceFile

\* the samples of all builders
SamplesIn(profs) ==
  UNION {{profs[k].builder.samples[j] :
            j \in 1..Len(profs[k].builder.samples)} : k \in 1..Len(profs)}

\* C13: once set, the latch never takes another value; before it is set no
\* builder exists, and afterwards the samples of all builders are those of
\* the timestamped records of the latched event type, one for each.
C13_SingleMetric ==
  /\ [][eventType # NullStr => eventType' = eventType]_vars
  /\ [](LET evs == Events
            same == {i \in TimedIn(evs) : evs[i].eventType = eventType}
        IN  IF eventType = NullStr THEN profiles = <<>>
            ELSE /\ SumLen(profiles) = Cardinality(same)
                 /\ SamplesIn(profiles) = {sampleOf(evs[i]) : i \in same})

\* two samples are in and a timestamped record of another type was met
C13_Witness ==
  LET evs == Events
  IN  /\ eventType # NullStr
      /\ SumLen(profiles) >= 2
      /\ \E i \in TimedIn(evs) : evs[i].eventType # eventType

\* C14: the samples of the builder of every context are those of the
\* accepted records of that context, one for each, in source order.
C14_BuilderHoldsItsContextInOrder ==
  LET evs == Events
      acc == AcceptedIn(evs)
  IN  \A i \in acc :
        LET mine == {j \in acc : Context(evs[j]) = Context(evs[i])}
            k == KeyIndex(profiles, profileName(evs[i]))
        IN  /\ k # 0
            /\ profiles[k].builder.samples
                 = [n \in 1..Cardinality(mine) |-> sampleOf(evs[KthOf(mine, n)])]

\* C15: every builder of the Map has a sample, a builder comes into being
\* only in the step that appends its first sample, and every profile of a
\* returned group has a sample.
C15_NoEmptyBuilder ==
  /\ [](\A k \in 1..Len(profiles) : profiles[k].builder.samples # <<>>)
  /\ [](pc = "done" /\ result # NullResult =>
          \A k \in 1..Len(result.profiles) :
            result.profiles[k].samples # <<>>)
  /\ [][Len(profiles') # Len(profiles) =>
          /\ pc = "body" /\ pending # NullEvent /\ pending.time # NullNum
          /\ Len(profiles') = Len(profiles) + 1
          /\ \E k \in 1..Len(profiles') :
               /\ profiles'[k].builder.samples = <<sampleOf(pending)>>
               /\ \A j \in 1..Len(profiles) : profiles[j].key # profiles'[k].key
       ]_vars

\* a group of a profile with one sample and a profile with more was returned
C15_Witness ==
  /\ pc = "done" /\ result # NullResult
  /\ \E k \in 1..Len(result.profiles) : Len(result.profiles[k].samples) = 1
  /\ \E k \in 1..Len(result.profiles) : Len(result.profiles[k].samples) >= 2

\* C16: the returned group has one profile for every builder, in the order
\* in which the first accepted record of each builder's profile name stands
\* in the input, so its first profile is that of the first accepted record.
C16_ProfilesInFirstAppearanceOrder ==
  (pc = "done" /\ result # NullResult) =>
    LET evs == Events
        acc == AcceptedIn(evs)
        firsts == {i \in acc :
                     \A j \in acc :
                       profileName(evs[j]) = profileName(evs[i]) => i <= j}
    IN  /\ Len(result.profiles) = Len(profiles)
        /\ Len(result.profiles) = Cardinality(firsts)
        /\ \A k \in 1..Len(result.profiles) :
             result.profiles[k].name = profileName(evs[KthOf(firsts, k)])
        /\ result.indexToView = 0
        /\ result.profiles[1].name = profileName(evs[Min(acc)])

\* the second profile of the group has more samples than the first
C16_Witness ==
  /\ pc = "done" /\ result # NullResult
  /\ Len(result.profiles) >= 2
  /\ Len(result.profiles[2].samples) > Len(result.profiles[1].samples)

====
